---- MODULE Spec2Model ----
(***************************************************************************)
(* Appetizer (src/appetizer.py): the recommendation ranking, the display   *)
(* of a recommendation, the inspiration generator and the Dash callbacks   *)
(* that page through the ranking.                                          *)
(*                                                                         *)
(* A pandas boolean Series over df.index is modelled as the set of row     *)
(* indices where it is True; the dummy columns "<col>_<label>" of a row    *)
(* are modelled as the set of labels whose column holds 1.  Python's None  *)
(* is the empty set and a value x that may be None is {x}.  A Python       *)
(* string is a sequence of pieces, "" being the empty sequence.            *)
(***************************************************************************)
EXTENDS Integers, Sequences, FiniteSets, TLC

\* ---------------------------------------------------------------- bounds
\* largest number of recipes in a catalog
MaxCatalog == 3
\* seeds range over 0..MaxSeed (the code draws from 0..2^32-1)
MaxSeed == 1
\* presses of one button between two resets
MaxClicks == 3
\* servings values range over those closer than this to the slider's default
ServingsSpan == 2
\* indices passed to select_recommendation range over 0..MaxIndex
MaxIndex == 3

\* ---------------------------------------------------------- Python values
None == {}
Some(x) == {x}
The(o) == CHOOSE x \in o : TRUE

\* dcc.Slider(1, 12, 1, value=4, ...)
SliderMin == 1
SliderMax == 12
SliderDefault == 4

\* ------------------------------------------------------------ the catalog
\* The labels a column category can take, in the (sorted) order in which
\* str.get_dummies lays out the dummy columns.
LabelOrder ==
  [ Meal    |-> <<"dinner", "lunch">>,
    Protein |-> <<"chicken", "none", "other", "tofu">>,
    Cuisine |-> <<"italian", "other", "thai">>,
    Form    |-> <<"salad", "soup">>,
    Starch  |-> <<"none", "other", "rice">> ]

\* The rows a "Weekly menu.xlsx" may hold, after get_dummies.
RecipePool ==
  << [ Recipe |-> "Chicken Parmesan", Notes |-> None,
       MinServings |-> 2, MaxServings |-> 4, Meal |-> {"dinner"},
       Protein |-> {"chicken"}, Cuisine |-> {"italian"}, Form |-> {},
       Starch |-> {"rice"} ],
     [ Recipe |-> "Tofu Curry", Notes |-> Some("serve hot"),
       MinServings |-> 2, MaxServings |-> 6, Meal |-> {"dinner"},
       Protein |-> {"tofu"}, Cuisine |-> {"thai"}, Form |-> {},
       Starch |-> {"rice"} ],
     [ Recipe |-> "Chicken Soup", Notes |-> None,
       MinServings |-> 1, MaxServings |-> 3, Meal |-> {"lunch", "dinner"},
       Protein |-> {"chicken"}, Cuisine |-> {"thai"}, Form |-> {"soup"},
       Starch |-> {"none"} ],
     [ Recipe |-> "Minestrone", Notes |-> Some("see the link"),
       MinServings |-> 4, MaxServings |-> 5, Meal |-> {"lunch"},
       Protein |-> {"none"}, Cuisine |-> {"italian"}, Form |-> {"soup"},
       Starch |-> {"other"} ],
     [ Recipe |-> "Cobb Salad", Notes |-> None,
       MinServings |-> 5, MaxServings |-> 8, Meal |-> {"lunch"},
       Protein |-> {"chicken", "other"}, Cuisine |-> {"other"},
       Form |-> {"salad"}, Starch |-> {"none"} ],
     [ Recipe |-> "Fruit Plate", Notes |-> Some("no cooking"),
       MinServings |-> 1, MaxServings |-> 12, Meal |-> {"lunch", "dinner"},
       Protein |-> {}, Cuisine |-> {}, Form |-> {}, Starch |-> {} ] >>

\* The sequence s restricted to the positions in keep, order kept.
RECURSIVE SubSeqAt(_, _, _)
SubSeqAt(s, keep, i) ==
  IF i > Len(s) THEN <<>>
  ELSE (IF i \in keep THEN <<s[i]>> ELSE <<>>) \o SubSeqAt(s, keep, i + 1)

\* The dataframes: between 1 and MaxCatalog rows of the pool, names unique.
Catalogs ==
  { SubSeqAt(RecipePool, keep, 1) :
      keep \in { k \in SUBSET (1..Len(RecipePool)) :
                   Cardinality(k) >= 1 /\ Cardinality(k) <= MaxCatalog } }

VARIABLES
  df,                 \* the recipes dataframe, a sequence of rows
  seed,               \* the session seed
  prev_recipes,       \* 'recipe-selection'.value / argument prev_recipes
  meals,              \* 'meal-selection'.value / argument meals
  servings,           \* 'servings-selection'.value / argument servings
  n_clicks,           \* 'suggest-recipe'.n_clicks
  inspire_clicks,     \* 'inspire-recipe'.n_clicks
  recommendations,    \* the last result of get_recipe_recommendations
  index,              \* the last index given to select_recommendation
  recipe_suggestion,  \* 'recipe-suggestion'.children / the markdown returned
  restart_disabled,   \* 'restart'.disabled
  new_category,       \* what get_new_category returned for each clause
  recipe_inspiration, \* 'recipe-inspiration'.children / the text returned
  pc                  \* the position of a direct call of the functions

vars == << df, seed, prev_recipes, meals, servings, n_clicks, inspire_clicks,
           recommendations, index, recipe_suggestion, restart_disabled,
           new_category, recipe_inspiration, pc >>

Rows(d) == 1..Len(d)

\* categories[col] of run_app: the labels of the dummy columns of col.
RECURSIVE SelectLabels(_, _, _)
SelectLabels(order, present, i) ==
  IF i > Len(order) THEN <<>>
  ELSE (IF order[i] \in present THEN <<order[i]>> ELSE <<>>)
       \o SelectLabels(order, present, i + 1)

categories(d, col) ==
  SelectLabels(LabelOrder[col], UNION { d[i][col] : i \in Rows(d) }, 1)

Range(s) == { s[i] : i \in 1..Len(s) }

\* --------------------------------------------------------------- ranking
\* get_recipe_indices, for the names of a selection (None is [] by then)
get_recipe_indices(d, recipes) ==
  { i \in Rows(d) : d[i].Recipe \in recipes }

\* mask of filter_col / get_new_category: the labels some previous row has
used_mask(d, col, prev_inds) ==
  { l \in Range(categories(d, col)) : \E p \in prev_inds : l \in d[p][col] }

filter_col(d, col, prev_inds) ==
  { i \in Rows(d) :
      \A l \in Range(categories(d, col)) :
        ~ (l \in d[i][col] /\ l \in used_mask(d, col, prev_inds)) }

\* df[f"Meal_{meal}"] raises KeyError when the catalog has no such column
select_meals_raises(d, ms) ==
  \E m \in ms : m \notin Range(categories(d, "Meal"))

select_meals(d, ms) ==
  { i \in Rows(d) : \E m \in ms : m \in d[i].Meal }

\* mutant: the upper bound of the serving range is not checked
select_servings_min_only(d, s) ==
  IF s # None
    THEN { i \in Rows(d) : d[i].MinServings <= The(s) }
    ELSE Rows(d)

select_servings(d, s) ==
  IF s # None
    THEN { i \in Rows(d) : d[i].MinServings <= The(s) /\ d[i].MaxServings >= The(s) }
    ELSE Rows(d)

recommendation_categories == <<"Protein", "Cuisine", "Form", "Starch">>

\* The successor state of the generator that sample() seeds with random_state
\* (numpy's generator is library code; a small linear congruential generator
\* stands for it, so that the order depends on the seed and the row count only).
NextRandom(x) == (5 * x + 3) % 16

RemoveAt(s, k) == SubSeq(s, 1, k - 1) \o SubSeq(s, k + 1, Len(s))

\* selected_recipes.sample(frac=1, random_state=seed): a permutation of the
\* rows that the seed and the number of rows determine.
RECURSIVE Permute(_, _)
Permute(s, x) ==
  IF s = <<>> THEN <<>>
  ELSE LET k == (x % Len(s)) + 1
       IN  <<s[k]>> \o Permute(RemoveAt(s, k), NextRandom(x))

sample(s, sd) == Permute(s, sd)

\* the rows of a mask in dataframe order: df[rating_mask]
RECURSIVE RowsOf(_, _, _)
RowsOf(d, mask, i) ==
  IF i > Len(d) THEN <<>>
  ELSE (IF i \in mask THEN <<i>> ELSE <<>>) \o RowsOf(d, mask, i + 1)

\* mutant: only the rating-th category is filtered, not the leading ones
rating_mask_last_only(d, mask, rating, prev_inds) ==
  { i \in mask :
      i \in filter_col(d, recommendation_categories[rating], prev_inds) }

\* the conjunction of filter_col over recommendation_categories[:rating]
rating_mask(d, mask, rating, prev_inds) ==
  { i \in mask :
      \A c \in 1..rating :
        i \in filter_col(d, recommendation_categories[c], prev_inds) }

Tier(d, rows, rating) ==
  [ j \in 1..Len(rows) |->
      [ idx |-> rows[j], Recipe |-> d[rows[j]].Recipe, Rating |-> rating ] ]

\* mutant: each tier is put in front of the tiers found so far
RECURSIVE rating_loop_reversed(_, _, _, _, _)
rating_loop_reversed(d, mask, rating, prev_inds, sd) ==
  IF rating = 0 THEN <<>>
  ELSE LET rm == rating_mask(d, mask, rating, prev_inds)
           shuffled == sample(RowsOf(d, rm, 1), sd)
       IN  rating_loop_reversed(d, mask \ rm, rating - 1, prev_inds, sd)
           \o Tier(d, shuffled, rating)

\* the loop for rating in range(4, 0, -1) and the concatenation of its tiers
RECURSIVE rating_loop(_, _, _, _, _)
rating_loop(d, mask, rating, prev_inds, sd) ==
  IF rating = 0 THEN <<>>
  ELSE LET rm == rating_mask(d, mask, rating, prev_inds)
           shuffled == sample(RowsOf(d, rm, 1), sd)
       IN  Tier(d, shuffled, rating)
           \o rating_loop(d, mask \ rm, rating - 1, prev_inds, sd)

eligible_mask(d, prev_inds, ms, s) ==
  ((Rows(d) \ prev_inds) \cap select_meals(d, ms)) \cap select_servings(d, s)

get_recipe_recommendations(d, prev, ms, s, sd) ==
  LET names == IF prev = None THEN {} ELSE The(prev)
      prev_inds == get_recipe_indices(d, names)
  IN  IF select_meals_raises(d, ms)
        THEN [ raised |-> TRUE, rows |-> <<>> ]
        ELSE [ raised |-> FALSE,
               rows |-> rating_loop(d, eligible_mask(d, prev_inds, ms, s),
                                    Len(recommendation_categories),
                                    prev_inds, sd) ]

\* ---------------------------------------------------------------- display
NoMoreRecipes == <<"No more recipes to recommend!">>

RECURSIVE Repeat(_, _)
Repeat(piece, n) == IF n <= 0 THEN <<>> ELSE <<piece>> \o Repeat(piece, n - 1)

\* mutant: the bound test is off by one
select_recommendation_off_by_one(d, recs, i) ==
  IF Len(recs) = 0 \/ i + 1 >= Len(recs)
    THEN NoMoreRecipes
    ELSE LET recommendation == recs[i + 1].Recipe
             rating == recs[i + 1].Rating
             stars == Repeat("*", rating)
             notes == d[recs[i + 1].idx].Notes
             text == IF notes = None THEN <<>> ELSE <<The(notes)>>
         IN  <<"## ", recommendation, " | ">> \o stars \o <<"\n">> \o text

\* select_recommendation for i >= 0 (iloc[i] is then the row at position i)
select_recommendation(d, recs, i) ==
  IF Len(recs) = 0 \/ i >= Len(recs)
    THEN NoMoreRecipes
    ELSE LET recommendation == recs[i + 1].Recipe
             rating == recs[i + 1].Rating
             stars == Repeat("*", rating)
             notes == d[recs[i + 1].idx].Notes
             text == IF notes = None THEN <<>> ELSE <<The(notes)>>
         IN  <<"## ", recommendation, " | ">> \o stars \o <<"\n">> \o text

\* ------------------------------------------------------------ inspiration
\* merge_strings: "" when an argument is None, the concatenation otherwise
RECURSIVE Join(_)
Join(strings) ==
  IF strings = <<>> THEN <<>> ELSE The(Head(strings)) \o Join(Tail(strings))

\* mutant: a None argument is skipped and the other arguments are kept
merge_strings_skip_none(strings) ==
  Join(SelectSeq(strings, LAMBDA x : x # None))

merge_strings(strings) ==
  IF \E i \in 1..Len(strings) : strings[i] = None THEN <<>> ELSE Join(strings)

\* mutant: the mask is not negated
compress_used(d, col, prev_inds) ==
  SelectLabels(categories(d, col), used_mask(d, col, prev_inds), 1)

\* list(compress(categories[col], ~mask))
compress_unused(d, col, prev_inds) ==
  SelectLabels(categories(d, col),
               Range(categories(d, col)) \ used_mask(d, col, prev_inds), 1)

\* list.remove(x) on a list that holds x
RECURSIVE Remove(_, _)
Remove(s, x) ==
  IF s = <<>> THEN <<>>
  ELSE IF Head(s) = x THEN Tail(s) ELSE <<Head(s)>> \o Remove(Tail(s), x)

\* try: remove('none'); remove('other')  except ValueError: pass
remove_placeholders(s) ==
  IF "none" \notin Range(s) THEN s
  ELSE LET s1 == Remove(s, "none")
       IN  IF "other" \notin Range(s1) THEN s1 ELSE Remove(s1, "other")

inspo_categories(d, col, prev_inds) ==
  remove_placeholders(compress_unused(d, col, prev_inds))

\* what get_new_category(col) can return: a label random.choice draws, or
\* None when the list is empty (IndexError)
get_new_category(d, col, prev_inds) ==
  LET cands == inspo_categories(d, col, prev_inds)
  IN  IF cands = <<>> THEN {None}
      ELSE { Some(<<cands[k]>>) : k \in 1..Len(cands) }

InspirationColumns == {"Cuisine", "Form", "Protein", "Starch"}

NotCalled == [ called |-> FALSE, value |-> None ]
Returned(v) == [ called |-> TRUE, value |-> v ]

\* The body of get_recipe_inspiration after the draws: cat[col] is what
\* get_new_category(col) returned, not called when its random() test failed.
compose_inspiration(cat) ==
  LET s1 == IF cat.Cuisine.called
              THEN merge_strings(<<cat.Cuisine.value, Some(<<" ">>)>>) ELSE <<>>
      s2 == s1 \o (IF cat.Form.called
                     THEN merge_strings(<<cat.Form.value, Some(<<" ">>)>>)
                     ELSE <<>>)
      prefix == IF s2 # <<>> THEN <<"with ">> ELSE <<>>
      s3 == s2 \o merge_strings(<<Some(prefix), cat.Protein.value, Some(<<>>)>>)
      prefix2 == IF s3 # <<>> THEN <<" and ">> ELSE <<>>
  IN  IF cat.Starch.called
        THEN s3 \o merge_strings(<<Some(prefix2), cat.Starch.value>>)
        ELSE s3

\* The outcomes of the draws of get_recipe_inspiration(df, categories, prev)
inspiration_draws(d, prev) ==
  LET names == IF prev = None THEN {} ELSE The(prev)
      prev_inds == get_recipe_indices(d, names)
      outcomes(col, always) ==
        { Returned(v) : v \in get_new_category(d, col, prev_inds) }
        \cup (IF always THEN {} ELSE {NotCalled})
  IN  { [ Cuisine |-> c, Form |-> f, Protein |-> p, Starch |-> s ] :
          c \in outcomes("Cuisine", FALSE), f \in outcomes("Form", FALSE),
          p \in outcomes("Protein", TRUE), s \in outcomes("Starch", FALSE) }

\* ----------------------------------------------------------- the Dash app
\* Checklist options the catalog has Meal columns for
MealOptions == Range(LabelOrder.Meal)
DefaultMeals == {"lunch", "dinner"}

SliderValues ==
  { s \in SliderMin..SliderMax :
      s - SliderDefault < ServingsSpan /\ SliderDefault - s < ServingsSpan }

RecipeNames(d) == { d[i].Recipe : i \in Rows(d) }

\* the spreadsheets whose Meal column holds every meal the checklist offers
\* (for any other spreadsheet select_meals raises KeyError inside the callback)
AppCatalogs ==
  { d \in Catalogs : MealOptions \subseteq Range(categories(d, "Meal")) }

NoRecommendations == [ raised |-> FALSE, rows |-> <<>> ]
NoCategories ==
  [ Cuisine |-> NotCalled, Form |-> NotCalled, Protein |-> NotCalled,
    Starch |-> NotCalled ]

\* mutant: the click count is used as the index
suggest_recipe_no_offset(d, clicks, prev, ms, s, sd) ==
  IF clicks # None
    THEN LET recs == get_recipe_recommendations(d, prev, ms, s, sd)
         IN  [ raised |-> recs.raised,
               children |-> select_recommendation(d, recs.rows, The(clicks)),
               disabled |-> FALSE ]
    ELSE [ raised |-> FALSE, children |-> <<>>, disabled |-> TRUE ]

\* the outputs of the callback suggest_recipe
suggest_recipe(d, clicks, prev, ms, s, sd) ==
  IF clicks # None
    THEN LET recs == get_recipe_recommendations(d, prev, ms, s, sd)
         IN  [ raised |-> recs.raised,
               children |-> select_recommendation(d, recs.rows, The(clicks) - 1),
               disabled |-> FALSE ]
    ELSE [ raised |-> FALSE, children |-> <<>>, disabled |-> TRUE ]

\* run_app up to app.run_server(), and the callbacks' initial calls
Init ==
  /\ df \in AppCatalogs
  /\ seed \in 0..MaxSeed
  /\ prev_recipes = None
  /\ meals = DefaultMeals
  /\ servings = Some(SliderDefault)
  /\ n_clicks = None
  /\ inspire_clicks = None
  /\ recommendations = NoRecommendations
  /\ index = None
  /\ recipe_suggestion = <<>>
  /\ restart_disabled = TRUE
  /\ new_category = NoCategories
  /\ recipe_inspiration = <<>>
  /\ pc = "app"

\* reset_clicks, followed by the callbacks its two outputs trigger:
\* suggest_recipe(None, ...) and inspire_recipe(None, ...)
reset_clicks ==
  /\ n_clicks' = None
  /\ inspire_clicks' = None
  /\ LET out == suggest_recipe(df, None, prev_recipes', meals', servings', seed)
     IN  /\ recipe_suggestion' = out.children
         /\ restart_disabled' = out.disabled
  /\ recipe_inspiration' = <<>>
  /\ UNCHANGED << df, seed, recommendations, index, new_category, pc >>

\* the user changes the Dropdown 'recipe-selection'
ChangeRecipes ==
  /\ pc = "app"
  /\ \E v \in SUBSET RecipeNames(df) :
       /\ Some(v) # prev_recipes
       /\ prev_recipes' = Some(v)
  /\ UNCHANGED << meals, servings >>
  /\ reset_clicks

\* the user changes the Checklist 'meal-selection'
ChangeMeals ==
  /\ pc = "app"
  /\ \E v \in SUBSET MealOptions :
       /\ v # meals
       /\ meals' = v
  /\ UNCHANGED << prev_recipes, servings >>
  /\ reset_clicks

\* the user moves the Slider 'servings-selection'
ChangeServings ==
  /\ pc = "app"
  /\ \E v \in SliderValues :
       /\ Some(v) # servings
       /\ servings' = Some(v)
  /\ UNCHANGED << prev_recipes, meals >>
  /\ reset_clicks

\* the user presses the button 'restart' (it cannot be pressed while disabled)
PressRestart ==
  /\ pc = "app"
  /\ ~ restart_disabled
  /\ UNCHANGED << prev_recipes, meals, servings >>
  /\ reset_clicks

\* the user presses 'suggest-recipe': n_clicks goes up and suggest_recipe runs;
\* a callback that raises leaves its outputs as they were
PressSuggest ==
  /\ pc = "app"
  /\ IF n_clicks = None THEN TRUE ELSE The(n_clicks) < MaxClicks
  /\ n_clicks' = IF n_clicks = None THEN Some(1) ELSE Some(The(n_clicks) + 1)
  /\ LET out == suggest_recipe(df, n_clicks', prev_recipes, meals, servings, seed)
     IN  IF out.raised
           THEN UNCHANGED << recipe_suggestion, restart_disabled >>
           ELSE /\ recipe_suggestion' = out.children
                /\ restart_disabled' = out.disabled
  /\ UNCHANGED << df, seed, prev_recipes, meals, servings, inspire_clicks,
                  recommendations, index, new_category, recipe_inspiration, pc >>

Next ==
  \/ ChangeRecipes
  \/ ChangeMeals
  \/ ChangeServings
  \/ PressRestart
  \/ PressSuggest

Spec == Init /\ [][Next]_vars

\* ------------------------------------------- direct calls of the functions
ServingsArgs == {None} \cup { Some(v) : v \in SliderValues }
PrevArgs(d) == {None} \cup { Some(v) : v \in SUBSET RecipeNames(d) }

\* the arguments of one call of get_recipe_recommendations
InitRank ==
  /\ df \in Catalogs
  /\ seed \in 0..MaxSeed
  /\ prev_recipes \in PrevArgs(df)
  /\ meals \in SUBSET MealOptions
  /\ servings \in ServingsArgs
  /\ n_clicks = None
  /\ inspire_clicks = None
  /\ recommendations = NoRecommendations
  /\ index = None
  /\ recipe_suggestion = <<>>
  /\ restart_disabled = TRUE
  /\ new_category = NoCategories
  /\ recipe_inspiration = <<>>
  /\ pc = "start"

CallRecommendations ==
  /\ pc = "start"
  /\ recommendations' =
       get_recipe_recommendations(df, prev_recipes, meals, servings, seed)
  /\ pc' = IF recommendations'.raised THEN "raised" ELSE "ranked"
  /\ UNCHANGED << df, seed, prev_recipes, meals, servings, n_clicks,
                  inspire_clicks, index, recipe_suggestion, restart_disabled,
                  new_category, recipe_inspiration >>

CallSelect ==
  /\ pc = "ranked"
  /\ \E i \in 0..MaxIndex :
       /\ index' = Some(i)
       /\ recipe_suggestion' = select_recommendation(df, recommendations.rows, i)
  /\ pc' = "selected"
  /\ UNCHANGED << df, seed, prev_recipes, meals, servings, n_clicks,
                  inspire_clicks, recommendations, restart_disabled,
                  new_category, recipe_inspiration >>

NextRank ==
  \/ CallRecommendations
  \/ CallSelect

SpecRank == InitRank /\ [][NextRank]_vars

\* the arguments of one call of get_recipe_inspiration
InitInspire ==
  /\ df \in Catalogs
  /\ seed = 0
  /\ prev_recipes \in PrevArgs(df)
  /\ meals = DefaultMeals
  /\ servings = Some(SliderDefault)
  /\ n_clicks = None
  /\ inspire_clicks = None
  /\ recommendations = NoRecommendations
  /\ index = None
  /\ recipe_suggestion = <<>>
  /\ restart_disabled = TRUE
  /\ new_category = NoCategories
  /\ recipe_inspiration = <<>>
  /\ pc = "start"

CallInspiration ==
  /\ pc = "start"
  /\ \E cat \in inspiration_draws(df, prev_recipes) :
       /\ new_category' = cat
       /\ recipe_inspiration' = compose_inspiration(cat)
  /\ pc' = "inspired"
  /\ UNCHANGED << df, seed, prev_recipes, meals, servings, n_clicks,
                  inspire_clicks, recommendations, index, recipe_suggestion,
                  restart_disabled >>

NextInspire == CallInspiration

SpecInspire == InitInspire /\ [][NextInspire]_vars

\* ------------------------------------------------------ terms of the claims
PrevNames == IF prev_recipes = None THEN {} ELSE The(prev_recipes)
PrevRows == { i \in Rows(df) : df[i].Recipe \in PrevNames }
Vocabulary(col) == UNION { df[i][col] : i \in Rows(df) }
UsedLabels(col) == UNION { df[i][col] : i \in PrevRows }
IsDissimilar(r, col) == r[col] \cap UsedLabels(col) = {}
IsEligible(r) ==
  /\ r.Recipe \notin PrevNames
  /\ r.Meal \cap meals # {}
  /\ servings # None =>
       (r.MinServings <= The(servings) /\ The(servings) <= r.MaxServings)
Ranked == pc \in {"ranked", "selected"}
Output == recommendations.rows
Placeholders == {"none", "other"}

\* C1: every recipe in the output of get_recipe_recommendations is eligible:
\* it is not a previous recipe, it carries a requested Meal label and, when
\* servings is given, Min Servings <= servings <= Max Servings.
C1_OutputEligible ==
  Ranked =>
    \A j \in 1..Len(Output) :
      /\ Output[j].idx \in Rows(df)
      /\ Output[j].Recipe = df[Output[j].idx].Recipe
      /\ IsEligible(df[Output[j].idx])

C1_Witness ==
  /\ Ranked
  /\ Len(Output) >= 1
  /\ PrevNames # {}
  /\ servings # None
  /\ \E i \in Rows(df) :
       /\ df[i].Recipe \notin PrevNames
       /\ df[i].Meal \cap meals # {}
       /\ The(servings) > df[i].MaxServings

\* C2: the recipes returned by get_recipe_recommendations are exactly the
\* eligible recipes dissimilar from the previous selection in at least one of
\* Protein, Cuisine, Form, Starch.
C2_ExactlyDissimilarInSome ==
  Ranked =>
    { Output[j].Recipe : j \in 1..Len(Output) }
      = { df[i].Recipe : i \in { k \in Rows(df) :
            /\ IsEligible(df[k])
            /\ \E c \in 1..Len(recommendation_categories) :
                 IsDissimilar(df[k], recommendation_categories[c]) } }

C4_RatingsNonIncreasing ==
  Ranked =>
    \A i, j \in 1..Len(Output) : i < j => Output[i].Rating >= Output[j].Rating

C4_Witness ==
  /\ Ranked
  /\ Len(Output) >= 2
  /\ Output[1].Rating > Output[2].Rating

\* C6: for an index i >= 0 select_recommendation returns the sentinel exactly
\* when the list is empty or i >= its length; otherwise it returns the record
\* of position i: its recipe name, as many '*' as its rating, and the recipe's
\* notes ("" when absent).
C6_SelectSentinelOrRecord ==
  pc = "selected" =>
    LET i == The(index)
        shown == recipe_suggestion
    IN  /\ (shown = NoMoreRecipes) <=> (Len(Output) = 0 \/ i >= Len(Output))
        /\ i < Len(Output) =>
             LET row == Output[i + 1]
                 notes == df[row.idx].Notes
             IN  /\ Len(shown) >= 4 + row.Rating
                 /\ shown[2] = row.Recipe
                 /\ \A k \in 1..row.Rating : shown[3 + k] = "*"
                 /\ shown[4 + row.Rating] # "*"
                 /\ IF notes = None
                      THEN Len(shown) = 4 + row.Rating
                      ELSE /\ Len(shown) = 5 + row.Rating
                           /\ shown[5 + row.Rating] = The(notes)

C6_Witness ==
  /\ pc = "selected"
  /\ Len(Output) >= 2
  /\ The(index) = Len(Output) - 1
  /\ recipe_suggestion # NoMoreRecipes
  /\ df[Output[The(index) + 1].idx].Notes = None

\* C7: no clause of the text returned by get_recipe_inspiration uses the
\* placeholder label "none" or "other".
C7_NoPlaceholderInText ==
  pc = "inspired" =>
    \A k \in 1..Len(recipe_inspiration) :
      recipe_inspiration[k] \notin Placeholders

\* C8: every label get_recipe_inspiration emits for a dimension is a label of
\* the dimension's vocabulary that no previous recipe carries; with an empty
\* previous selection every label of the vocabulary is a candidate.
C8_LabelsUnused ==
  pc = "inspired" =>
    \A col \in InspirationColumns :
      /\ new_category[col].value # None =>
           \E l \in Vocabulary(col) \ UsedLabels(col) :
             /\ new_category[col].value = Some(<<l>>)
             /\ \E k \in 1..Len(recipe_inspiration) : recipe_inspiration[k] = l
      /\ PrevNames = {} =>
           Range(compress_unused(df, col, PrevRows)) = Vocabulary(col)

C8_Witness ==
  /\ pc = "inspired"
  /\ PrevNames # {}
  /\ \E col \in InspirationColumns :
       /\ UsedLabels(col) # {}
       /\ Vocabulary(col) \ UsedLabels(col) # {}
       /\ new_category[col].value # None

====
